---- MODULE Spec2Model ----
(***************************************************************************)
(* State-machine model of the $BRATS presale / staking program             *)
(* (src/brats_contract_v3.rs, Anchor program `brats_contract`).           *)
(*                                                                         *)
(* Amounts are u64 in the program.  They are modelled as exact natural     *)
(* numbers written as little-endian sequences of base-10000 limbs without  *)
(* leading zero limbs, so that the 64-bit range and the checked_* methods  *)
(* keep their real boundaries.  Timestamps (i64 seconds) are plain         *)
(* integers; they stay far inside the i64 range.                           *)
(***************************************************************************)
EXTENDS Integers, Sequences, FiniteSets, TLC

\* ------------------------------------------------------------------------
\* Exact natural-number arithmetic (u64 values and their products)
\* ------------------------------------------------------------------------
Base == 10 ^ 4

RECURSIVE BFromInt(_)
\* the natural number n (0 <= n < 2^31) as limbs
BFromInt(n) == IF n = 0 THEN <<>> ELSE <<n % Base>> \o BFromInt(n \div Base)

RECURSIVE BNorm(_)
BNorm(s) ==
    IF s = <<>> THEN <<>>
    ELSE IF s[Len(s)] = 0 THEN BNorm(SubSeq(s, 1, Len(s) - 1))
    ELSE s

Limb(s, i) == IF i <= Len(s) THEN s[i] ELSE 0

RECURSIVE BAddC(_, _, _, _)
BAddC(a, b, i, c) ==
    IF i > Len(a) /\ i > Len(b)
    THEN (IF c = 0 THEN <<>> ELSE <<c>>)
    ELSE LET t == Limb(a, i) + Limb(b, i) + c
         IN  <<t % Base>> \o BAddC(a, b, i + 1, t \div Base)

BAdd(a, b) == BAddC(a, b, 1, 0)

RECURSIVE BCmpAt(_, _, _)
BCmpAt(a, b, i) ==
    IF i = 0 THEN 0
    ELSE IF a[i] < b[i] THEN -1
    ELSE IF a[i] > b[i] THEN 1
    ELSE BCmpAt(a, b, i - 1)

BCmp(a, b) ==
    IF Len(a) < Len(b) THEN -1
    ELSE IF Len(a) > Len(b) THEN 1
    ELSE BCmpAt(a, b, Len(a))

BLeq(a, b) == BCmp(a, b) <= 0
BLess(a, b) == BCmp(a, b) < 0

RECURSIVE BSubC(_, _, _, _)
BSubC(a, b, i, borrow) ==
    IF i > Len(a) THEN <<>>
    ELSE LET t == a[i] - Limb(b, i) - borrow
         IN  IF t < 0 THEN <<t + Base>> \o BSubC(a, b, i + 1, 1)
                      ELSE <<t>> \o BSubC(a, b, i + 1, 0)

\* a - b for a >= b
BSub(a, b) == BNorm(BSubC(a, b, 1, 0))

RECURSIVE BMulSmallC(_, _, _, _)
BMulSmallC(a, m, i, c) ==
    IF i > Len(a)
    THEN (IF c = 0 THEN <<>> ELSE <<c>>)
    ELSE LET t == a[i] * m + c
         IN  <<t % Base>> \o BMulSmallC(a, m, i + 1, t \div Base)

\* a * m for one limb m
BMulSmall(a, m) == BNorm(BMulSmallC(a, m, 1, 0))

BShift(x) == IF x = <<>> THEN <<>> ELSE <<0>> \o x

RECURSIVE BMulAt(_, _, _)
BMulAt(a, b, j) ==
    IF j > Len(b) THEN <<>>
    ELSE BAdd(BMulSmall(a, b[j]), BShift(BMulAt(a, b, j + 1)))

BMul(a, b) == BMulAt(a, b, 1)

RECURSIVE BDivAt(_, _, _, _)
BDivAt(a, d, i, rem) ==
    IF i = 0 THEN <<>>
    ELSE LET cur == rem * Base + a[i]
         IN  BDivAt(a, d, i - 1, cur % d) \o <<cur \div d>>

\* floor(a / d) for a divisor 0 < d <= 200000
BDivSmall(a, d) == BNorm(BDivAt(a, d, Len(a), 0))

Zero == <<>>
Million == BFromInt(1000000)
\* 10^19, a u64 value whose multiples by 20 or by an apy leave the u64 range
Huge == <<0, 0, 0, 0, 1000>>
\* u64::MAX = 18446744073709551615
U64_MAX == <<1615, 955, 737, 6744, 1844>>

\* Option<u64> results of the checked_* methods
NoneU64 == [some |-> FALSE, val |-> Zero]
SomeU64(v) == [some |-> TRUE, val |-> v]

checked_add(a, b) ==
    LET s == BAdd(a, b) IN IF BLeq(s, U64_MAX) THEN SomeU64(s) ELSE NoneU64

checked_sub(a, b) == IF BLeq(b, a) THEN SomeU64(BSub(a, b)) ELSE NoneU64

checked_mul(a, b) ==
    LET p == BMul(a, b) IN IF BLeq(p, U64_MAX) THEN SomeU64(p) ELSE NoneU64


\* ------------------------------------------------------------------------
\* Program constants
\* ------------------------------------------------------------------------
STAKING_DURATION == 180 * 24 * 3600

EARLY_UNSTAKE_PERIOD == 7 * 24 * 3600
LIQUIDITY_LOCK_PERIOD == 365 * 24 * 3600
EARLY_UNSTAKE_PENALTY_PERCENT == 20
FLAT_FEE == 3

\* A Pubkey is modelled by its base58 text.  The three key literals of the
\* program are kept as written: the admin literal of initialize_token and
\* FEE_WALLET are the same 48 characters, CUSTOM_TOKEN_MINT has 44.
ADMIN == "57EMXJXJkGYNCGjr9ngZPKnJr9jdJPZ1SRr9jdJPZ1SRr9tr"
FEE_WALLET == "57EMXJXJkGYNCGjr9ngZPKnJr9jdJPZ1SRr9jdJPZ1SRr9tr"
CUSTOM_TOKEN_MINT == "57EMXJXJkGYNCGjr9ngZPKnJr9jdJPZ1SRrWQqcxg9tr"
\* Pubkey::default(), 32 zero bytes
NATIVE_MINT == "11111111111111111111111111111111"

\* Result<Pubkey, ParsePubkeyError> of Pubkey::from_str, read by unwrap; a
\* key that parsed is named by its text
ErrKey(e) == [some |-> FALSE, val |-> "", err |-> e]
SomeKey(k) == [some |-> TRUE, val |-> k, err |-> ""]

\* the longest base58 text of 32 bytes, and the bytes of a key
MAX_BASE58_LEN == 44
PUBKEY_BYTES == 32

\* the base58 alphabet of bs58 (Bitcoin's): the digit of a character is its
\* place in it, counted from 0
BASE58_ALPHABET == "123456789ABCDEFGHJKLMNPQRSTUVWXYZabcdefghijkmnopqrstuvwxyz"

\* the digit of the character ch, -1 for a character outside the alphabet
Base58Digit(ch) ==
    IF \E i \in 1..Len(BASE58_ALPHABET) : SubSeq(BASE58_ALPHABET, i, i) = ch
    THEN (CHOOSE i \in 1..Len(BASE58_ALPHABET) :
              SubSeq(BASE58_ALPHABET, i, i) = ch) - 1
    ELSE -1

IsBase58(s) == \A i \in 1..Len(s) : Base58Digit(SubSeq(s, i, i)) >= 0

RECURSIVE Pow58(_)
\* 58^k, by halving k
Pow58(k) ==
    IF k = 0 THEN BFromInt(1)
    ELSE IF k % 2 = 1 THEN BMulSmall(Pow58(k - 1), 58)
    ELSE LET h == Pow58(k \div 2) IN BMul(h, h)

RECURSIVE Base58Value(_, _, _)
\* the number whose base58 digits are the characters i..j of s, the most
\* significant first, by halving the text
Base58Value(s, i, j) ==
    IF i > j THEN Zero
    ELSE IF i = j THEN BFromInt(Base58Digit(SubSeq(s, i, i)))
    ELSE LET m == (i + j) \div 2
         IN  BNorm(BAdd(BMul(Base58Value(s, i, m), Pow58(j - m)),
                        Base58Value(s, m + 1, j)))

RECURSIVE LeadingOnes(_, _)
\* the characters "1" at the head of s from the i-th on: each decodes to one
\* zero byte
LeadingOnes(s, i) ==
    IF i > Len(s) \/ SubSeq(s, i, i) # "1" THEN 0
    ELSE 1 + LeadingOnes(s, i + 1)

RECURSIVE ByteLen(_)
\* the bytes of the number n without leading zero bytes, two at a time
ByteLen(n) ==
    IF n = Zero THEN 0
    ELSE IF BLess(n, BFromInt(256)) THEN 1
    ELSE 2 + ByteLen(BDivSmall(n, 256 * 256))

\* the length of bs58::decode(s).into_vec() for a base58 text s
Base58DecodedLen(s) == LeadingOnes(s, 1) + ByteLen(Base58Value(s, 1, Len(s)))

\* Pubkey::from_str: a text longer than MAX_BASE58_LEN is refused before it
\* is decoded (WrongSize), a text with a character outside the alphabet
\* does not decode (Invalid), and a text that decodes to other than 32
\* bytes is refused after (WrongSize)
Pubkey_from_str(s) ==
    IF Len(s) > MAX_BASE58_LEN THEN ErrKey("WrongSize")
    ELSE IF ~IsBase58(s) THEN ErrKey("Invalid")
    ELSE IF Base58DecodedLen(s) # PUBKEY_BYTES THEN ErrKey("WrongSize")
    ELSE SomeKey(s)

\* Option<i64>
NoneTime == [some |-> FALSE, val |-> 0]
SomeTime(t) == [some |-> TRUE, val |-> t]

\* space = 8 + std::mem::size_of::<T>() of the three init accounts: a
\* PresaleState is 3 Option<i64> of 16 bytes, a Pubkey of 32 and 2 bool,
\* padded to 88; a GlobalState is 4 u64; a PresaleStageInfo is 8 stages of
\* a u8 and 3 u64, padded to 32 each
PresaleStateSpace == 8 + 88
GlobalStateSpace == 8 + 4 * 8
PresaleStageInfoSpace == 8 + 8 * 32

\* Rent::minimum_balance with the rent of the cluster: 128 bytes of
\* overhead, 3480 lamports per byte and year, exempt at 2 years
RentExemptMinimum(space) == BFromInt((128 + space) * 3480 * 2)

\* ------------------------------------------------------------------------
\* Bounds of the model
\* ------------------------------------------------------------------------
\* number of steps (instructions that succeed, clock advances) in one
\* behaviour
MaxSteps == 3

\* the keys that sign; each has a token account and a system account
Users == {"admin", "alice"}
TokenAccounts == Users \cup {"staking_pool", "reward_pool", "treasury",
                             "fee_wallet", "liquidity", "vault"}
SolAccounts == Users \cup {"treasury", "fee_wallet"}

\* Addresses at which the accounts of the program can lie.  The init
\* contexts have no seeds, so an account is created at whatever address the
\* transaction names; "p1", "g1" and "s1" are the addresses a deployment
\* uses, "p2", "g2" and "s2" are other addresses.  A StakeInfo is named by
\* the depositor it was set up for.
PresaleStates == {"p1", "p2"}
GlobalStates == {"g1", "g2"}
PresaleStageInfos == {"s1", "s2"}
StakeInfos == Users

\* ------------------------------------------------------------------------
\* State
\* ------------------------------------------------------------------------
VARIABLES
    now,                \* Clock::get()?.unix_timestamp
    steps,              \* successful instructions and clock advances so far
    created,            \* which accounts of the program exist, by address
    presale_state,      \* the PresaleState accounts, by address
    global_state,       \* the GlobalState accounts, by address
    stake_info,         \* the StakeInfo accounts, named by their depositor
    presale_stage_info, \* the PresaleStageInfo accounts (8 stages), by address
    token,              \* SPL token balance of every token account
    sol,                \* lamports of every system account
    last                \* the instruction just processed and its result

accts == <<created, presale_state, global_state, stake_info,
           presale_stage_info, token, sol>>
vars == <<now, steps, created, presale_state, global_state, stake_info,
          presale_stage_info, token, sol, last>>

\* the accounts as one record, the value an instruction handler works on
Cur == [created |-> created,
        presale_state |-> presale_state, global_state |-> global_state,
        stake_info |-> stake_info, presale_stage_info |-> presale_stage_info,
        token |-> token, sol |-> sol]

\* ------------------------------------------------------------------------
\* Ledger (SPL token program and system program) reached through CPI
\* ------------------------------------------------------------------------
\* token::transfer; ok = FALSE is a transfer the token program rejects (the
\* authority is not the owner or a delegate of the source, the mints differ,
\* an account is frozen).  A transfer from an account to itself is checked
\* against the balance and moves nothing.
TokenTransfer(st, from, to, amount, ok) ==
    IF ok /\ BLeq(amount, st.token[from])
    THEN [ok |-> TRUE,
          st |-> IF from = to THEN st
                 ELSE [st EXCEPT !.token =
                          [@ EXCEPT ![from] = BSub(@, amount),
                                    ![to] = BAdd(@, amount)]]]
    ELSE [ok |-> FALSE, st |-> st]

\* token::burn
TokenBurn(st, from, amount, ok) ==
    IF ok /\ BLeq(amount, st.token[from])
    THEN [ok |-> TRUE,
          st |-> [st EXCEPT !.token = [@ EXCEPT ![from] = BSub(@, amount)]]]
    ELSE [ok |-> FALSE, st |-> st]

\* system_instruction::transfer through solana_program::program::invoke;
\* ok = FALSE is a transfer the system program rejects (the source has not
\* signed, or carries data)
SolTransfer(st, from, to, amount, ok) ==
    IF ok /\ BLeq(amount, st.sol[from])
    THEN [ok |-> TRUE,
          st |-> IF from = to THEN st
                 ELSE [st EXCEPT !.sol =
                          [@ EXCEPT ![from] = BSub(@, amount),
                                    ![to] = BAdd(@, amount)]]]
    ELSE [ok |-> FALSE, st |-> st]

\* ------------------------------------------------------------------------
\* Results of an instruction handler
\* ------------------------------------------------------------------------
\* err = "Ok", an ErrorCode, "Panic" (unwrap of None) or "LedgerError" (a
\* CPI returned Err); st holds the writes made before the handler returned
Res(err, st, paid, burned, ret) ==
    [err |-> err, st |-> st, paid |-> paid, burned |-> burned, ret |-> ret]

Fail(err, st) == Res(err, st, Zero, Zero, Zero)
Done(st) == Res("Ok", st, Zero, Zero, Zero)

\* ------------------------------------------------------------------------
\* Instruction handlers (module brats_contract).  c holds the accounts of
\* the context, under the names of its fields: for a program account its
\* address, for a token or system account its name, for a signer its key.
\* fail_at = k makes the k-th CPI of the handler return Err (0: none).
\* ------------------------------------------------------------------------

end_presale_h(st, c) ==
    LET ps == c.presale_state
    IN  IF ~st.presale_state[ps].is_presale_active
        THEN Fail("PresaleAlreadyEnded", st)
        ELSE IF c.admin # st.presale_state[ps].admin
        THEN Fail("Unauthorized", st)
        ELSE Done([st EXCEPT
                !.presale_state[ps].is_presale_active = FALSE,
                !.presale_state[ps].presale_end_time = SomeTime(now),
                !.presale_state[ps].launch_time = SomeTime(now),
                !.presale_state[ps].liquidity_lock_end_time =
                    SomeTime(now + LIQUIDITY_LOCK_PERIOD)])

\* c.fee_wallet_sol_key: the key of the fee_wallet_sol_account passed;
\* c.fee_wallet_token_owner: the owner of the fee_wallet_token_account
\* passed
accept_payment_h(st, c, amount, token_mint, fail_at) ==
    LET fee_wallet_pubkey == Pubkey_from_str(FEE_WALLET)
        custom_mint == Pubkey_from_str(CUSTOM_TOKEN_MINT)
    IN
    IF ~fee_wallet_pubkey.some
    THEN Fail("Panic", st)
    ELSE IF c.fee_wallet_sol_key # fee_wallet_pubkey.val
    THEN Fail("InvalidFeeWallet", st)
    ELSE IF c.fee_wallet_token_owner # fee_wallet_pubkey.val
    THEN Fail("InvalidFeeWallet", st)
    ELSE IF token_mint = NATIVE_MINT
    THEN IF ~BLess(BFromInt(FLAT_FEE), amount)
         THEN Fail("InvalidAmount", st)
         ELSE LET fee == BFromInt(FLAT_FEE)
                  net == checked_sub(amount, fee)
              IN  IF ~net.some THEN Fail("Panic", st)
                  ELSE LET t1 == SolTransfer(st, c.payer,
                                     c.treasury_sol_account, net.val,
                                     fail_at # 1)
                       IN  IF ~t1.ok THEN Fail("LedgerError", t1.st)
                           ELSE LET t2 == SolTransfer(t1.st, c.payer,
                                             c.fee_wallet_sol_account, fee,
                                             fail_at # 2)
                                IN  IF ~t2.ok THEN Fail("LedgerError", t2.st)
                                    ELSE Res("Ok", t2.st, net.val, Zero, fee)
    ELSE IF ~custom_mint.some
    THEN Fail("Panic", st)
    ELSE IF token_mint = custom_mint.val
    THEN IF ~BLeq(amount, st.token[c.payer_token_account])
         THEN Fail("InsufficientFunds", st)
         ELSE LET fee == BFromInt(FLAT_FEE)
                  net == checked_sub(amount, fee)
              IN  IF ~net.some THEN Fail("Panic", st)
                  ELSE LET t1 == TokenTransfer(st, c.payer_token_account,
                                     c.treasury_token_account, net.val,
                                     fail_at # 1)
                       IN  IF ~t1.ok THEN Fail("LedgerError", t1.st)
                           ELSE LET t2 == TokenTransfer(t1.st,
                                             c.payer_token_account,
                                             c.fee_wallet_token_account,
                                             fee, fail_at # 2)
                                IN  IF ~t2.ok THEN Fail("LedgerError", t2.st)
                                    ELSE Res("Ok", t2.st, net.val, Zero, fee)
    ELSE Fail("InvalidTokenMint", st)

deposit_sol_h(st, c, amount, fail_at) ==
    LET t1 == SolTransfer(st, c.payer, c.treasury_sol_account, amount,
                          fail_at # 1)
    IN  IF ~t1.ok THEN Fail("LedgerError", t1.st)
        ELSE Res("Ok", t1.st, amount, Zero, Zero)

stake_tokens_h(st, c, amount, fail_at) ==
    LET si == c.stake_info
        gs == c.global_state
    IN  IF ~st.presale_state[c.presale_state].is_presale_active
        THEN Fail("StakingClosed", st)
        ELSE IF ~BLess(Zero, st.global_state[gs].reward_pool)
        THEN Fail("StakingRewardsExhausted", st)
        ELSE IF ~BLess(Zero, amount)
        THEN Fail("InvalidAmount", st)
        ELSE LET a == checked_add(st.stake_info[si].amount, amount)
             IN  IF ~a.some THEN Fail("Panic", st)
             ELSE LET s1 == [st EXCEPT !.stake_info[si].amount = a.val]
                      t == checked_add(s1.global_state[gs].total_staked,
                                       amount)
             IN  IF ~t.some THEN Fail("Panic", s1)
             ELSE LET s2 == [s1 EXCEPT
                                !.global_state[gs].total_staked = t.val,
                                !.stake_info[si].start_time = now,
                                !.stake_info[si].last_claim_time = now]
                      t1 == TokenTransfer(s2, c.user_token_account,
                                          c.staking_pool_token_account,
                                          amount, fail_at # 1)
             IN  IF ~t1.ok THEN Fail("LedgerError", t1.st)
                 ELSE Res("Ok", t1.st, amount, Zero, Zero)

unstake_tokens_h(st, c, fail_at) ==
    LET si == c.stake_info
        gs == c.global_state
        pool == c.staking_pool_token_account
        info == st.stake_info[si]
        staking_duration == now - info.start_time
        launch == st.presale_state[c.presale_state].launch_time
    IN  IF launch.some /\ now < launch.val + EARLY_UNSTAKE_PERIOD
        THEN Fail("UnstakingNotAllowedBefore7Days", st)
        ELSE IF ~BLess(Zero, info.amount)
        THEN Fail("InvalidAmount", st)
        ELSE IF staking_duration >= STAKING_DURATION
        THEN LET unstake_amount == info.amount
                 t == checked_sub(st.global_state[gs].total_staked,
                                  unstake_amount)
             IN  IF ~t.some THEN Fail("Panic", st)
                 ELSE LET s1 == [st EXCEPT
                                    !.global_state[gs].total_staked = t.val,
                                    !.stake_info[si].amount = Zero]
                          t1 == TokenTransfer(s1, pool, c.user_token_account,
                                              unstake_amount, fail_at # 1)
                      IN  IF ~t1.ok THEN Fail("LedgerError", t1.st)
                          ELSE Res("Ok", t1.st, unstake_amount, Zero, Zero)
        ELSE LET m == checked_mul(info.amount,
                                  BFromInt(EARLY_UNSTAKE_PENALTY_PERCENT))
             IN  IF ~m.some THEN Fail("Panic", st)
             ELSE LET penalty_amount == BDivSmall(m.val, 100)
                      u == checked_sub(info.amount, penalty_amount)
             IN  IF ~u.some THEN Fail("Panic", st)
             ELSE LET unstake_amount == u.val
                      t == checked_sub(st.global_state[gs].total_staked,
                                       info.amount)
             IN  IF ~t.some THEN Fail("Panic", st)
             ELSE LET s1 == [st EXCEPT
                                !.global_state[gs].total_staked = t.val,
                                !.stake_info[si].amount = Zero]
                      t1 == TokenTransfer(s1, pool, c.user_token_account,
                                          unstake_amount, fail_at # 1)
             IN  IF ~t1.ok THEN Fail("LedgerError", t1.st)
             ELSE LET t2 == TokenBurn(t1.st, pool, penalty_amount,
                                      fail_at # 2)
             IN  IF ~t2.ok THEN Fail("LedgerError", t2.st)
                 ELSE Res("Ok", t2.st, unstake_amount, penalty_amount, Zero)

\* amount is the balance of the liquidity_token_account passed
lock_liquidity_h(st, c, fail_at) ==
    LET ps == c.presale_state
        lock_end == st.presale_state[ps].liquidity_lock_end_time
    IN  IF lock_end.some /\ now < lock_end.val
        THEN LET amount == st.token[c.liquidity_token_account]
             IN  IF ~BLess(Zero, amount) THEN Fail("InvalidAmount", st)
                 ELSE LET t1 == TokenTransfer(st, c.liquidity_token_account,
                                              c.vault_account, amount,
                                              fail_at # 1)
                      IN  IF ~t1.ok THEN Fail("LedgerError", t1.st)
                          ELSE Res("Ok",
                                   [t1.st EXCEPT
                                      !.presale_state[ps].liquidity_locked =
                                          TRUE],
                                   amount, Zero, Zero)
        ELSE Fail("LiquidityLockError", st)

\* amount * apy * staking_time / (100 * STAKING_DURATION) with the checked
\* u64 methods; 100 * STAKING_DURATION = 100 * 1000 * 15552 is divided out
\* one factor at a time, which gives the same floor
reward_amount(amount, apy, staking_time) ==
    LET m1 == checked_mul(amount, apy)
    IN  IF ~m1.some THEN NoneU64
        ELSE LET m2 == checked_mul(m1.val, BFromInt(staking_time))
             IN  IF ~m2.some THEN NoneU64
                 ELSE SomeU64(BDivSmall(BDivSmall(BDivSmall(m2.val, 100),
                                 1000), STAKING_DURATION \div 1000))

\* the balance tested is that of the reward_pool_token_account passed, the
\* counter lowered is that of the GlobalState passed
claim_rewards_h(st, c, fail_at) ==
    LET si == c.stake_info
        gs == c.global_state
        rpool == c.reward_pool_token_account
        info == st.stake_info[si]
        staking_time == now - info.last_claim_time
    IN  IF ~(staking_time > 0) THEN Fail("NoRewardsAvailable", st)
        ELSE LET r == reward_amount(info.amount, st.global_state[gs].apy,
                                    staking_time)
        IN  IF ~r.some THEN Fail("Panic", st)
        ELSE IF ~BLeq(r.val, st.token[rpool])
        THEN Fail("InsufficientRewards", st)
        ELSE LET p == checked_sub(st.global_state[gs].reward_pool, r.val)
        IN  IF ~p.some THEN Fail("Panic", st)
        ELSE LET s1 == [st EXCEPT !.global_state[gs].reward_pool = p.val]
                 t1 == TokenTransfer(s1, rpool, c.user_token_account, r.val,
                                     fail_at # 1)
        IN  IF ~t1.ok THEN Fail("LedgerError", t1.st)
            ELSE Res("Ok",
                     [t1.st EXCEPT !.stake_info[si].last_claim_time = now],
                     r.val, Zero, Zero)

\* the handler repeats the computation of claim_rewards in its own body and
\* writes to no account; the value it returns is carried in ret
calculate_rewards_h(st, c) ==
    LET info == st.stake_info[c.stake_info]
        staking_time == now - info.last_claim_time
    IN  IF ~(staking_time > 0) THEN Fail("NoRewardsAvailable", st)
        ELSE LET m1 == checked_mul(info.amount,
                                   st.global_state[c.global_state].apy)
        IN  IF ~m1.some THEN Fail("Panic", st)
        ELSE LET m2 == checked_mul(m1.val, BFromInt(staking_time))
        IN  IF ~m2.some THEN Fail("Panic", st)
            ELSE Res("Ok", st, Zero, Zero,
                     BDivSmall(BDivSmall(BDivSmall(m2.val, 100), 1000),
                               STAKING_DURATION \div 1000))

burn_tokens_h(st, c, amount, fail_at) ==
    IF c.admin # st.presale_state[c.presale_state].admin
    THEN Fail("Unauthorized", st)
    ELSE LET t1 == TokenBurn(st, c.source, amount, fail_at # 1)
         IN  IF ~t1.ok THEN Fail("LedgerError", t1.st)
             ELSE Res("Ok", t1.st, Zero, amount, Zero)

\* the tokens go from the source passed to the reward_pool_token_account
\* passed, the counter raised is that of the GlobalState passed
refill_reward_pool_h(st, c, amount, fail_at) ==
    IF c.admin # st.presale_state[c.presale_state].admin
    THEN Fail("Unauthorized", st)
    ELSE LET gs == c.global_state
             t1 == TokenTransfer(st, c.source, c.reward_pool_token_account,
                                 amount, fail_at # 1)
         IN  IF ~t1.ok THEN Fail("LedgerError", t1.st)
             ELSE LET p == checked_add(t1.st.global_state[gs].reward_pool,
                                       amount)
                  IN  IF ~p.some THEN Fail("Panic", t1.st)
                      ELSE Res("Ok",
                               [t1.st EXCEPT
                                  !.global_state[gs].reward_pool = p.val],
                               amount, Zero, Zero)

update_parameters_h(st, c, new_apy, new_fee_percent) ==
    IF c.admin # st.presale_state[c.presale_state].admin
    THEN Fail("Unauthorized", st)
    ELSE LET gs == c.global_state
         IN  Done([st EXCEPT
                !.global_state[gs].apy = new_apy,
                !.global_state[gs].transaction_fee_percent =
                    new_fee_percent])

\* the lamports go from the treasury_sol_account passed to the signer
withdraw_funds_h(st, c, amount, fail_at) ==
    IF ~st.presale_state[c.presale_state].is_presale_active
    THEN Fail("WithdrawalNotAllowedAfterPresale", st)
    ELSE LET t1 == SolTransfer(st, c.treasury_sol_account, c.admin, amount,
                               fail_at # 1)
         IN  IF ~t1.ok THEN Fail("LedgerError", t1.st)
             ELSE Res("Ok", t1.st, amount, Zero, Zero)

\* update_presale_stage that writes the 0-based index as the stage number
update_presale_stage_h_stage_is_index(st, c, stage_index, price, sold, raised) ==
    LET psi == c.presale_stage_info
    IN  IF ~(stage_index < Len(st.presale_stage_info[psi]))
        THEN Fail("InvalidStageIndex", st)
        ELSE Done([st EXCEPT !.presale_stage_info[psi][stage_index + 1] =
                      [stage |-> stage_index, price |-> price,
                       tokens_sold |-> sold, total_raised |-> raised]])

\* stage_index is a u8
update_presale_stage_h(st, c, stage_index, price, sold, raised) ==
    LET psi == c.presale_stage_info
    IN  IF ~(stage_index < Len(st.presale_stage_info[psi]))
        THEN Fail("InvalidStageIndex", st)
        ELSE Done([st EXCEPT !.presale_stage_info[psi][stage_index + 1] =
                      [stage |-> stage_index + 1, price |-> price,
                       tokens_sold |-> sold, total_raised |-> raised]])

\* ------------------------------------------------------------------------
\* The initializing instructions
\* ------------------------------------------------------------------------
\* the admin literal does not parse: the unwrap panics after the first
\* three fields are written
initialize_token_h(st, c) ==
    LET ps == c.presale_state
        s1 == [st EXCEPT
                  !.presale_state[ps].is_presale_active = TRUE,
                  !.presale_state[ps].presale_end_time = NoneTime,
                  !.presale_state[ps].launch_time = NoneTime]
        admin == Pubkey_from_str(ADMIN)
    IN  IF ~admin.some THEN Fail("Panic", s1)
        ELSE Done([s1 EXCEPT
                !.presale_state[ps].admin = admin.val,
                !.presale_state[ps].liquidity_locked = FALSE,
                !.presale_state[ps].liquidity_lock_end_time = NoneTime])

initialize_global_state_h(st, c, apy, transaction_fee_percent) ==
    LET gs == c.global_state
    IN  Done([st EXCEPT
            !.global_state[gs].total_staked = Zero,
            !.global_state[gs].reward_pool = Zero,
            !.global_state[gs].apy = apy,
            !.global_state[gs].transaction_fee_percent =
                transaction_fee_percent])

PresaleStage(stage, price, tokens_sold, total_raised) ==
    [stage |-> stage, price |-> BFromInt(price),
     tokens_sold |-> tokens_sold, total_raised |-> BFromInt(total_raised)]

\* 2_500_000_000
TokensPerStage == BMul(BFromInt(2500), Million)

initialize_presale_stages_h(st, c) ==
    Done([st EXCEPT !.presale_stage_info[c.presale_stage_info] =
        << PresaleStage(1, 21000, TokensPerStage, 525000),
           PresaleStage(2, 25000, TokensPerStage, 625000),
           PresaleStage(3, 29000, TokensPerStage, 725000),
           PresaleStage(4, 33000, TokensPerStage, 825000),
           PresaleStage(5, 37000, TokensPerStage, 925000),
           PresaleStage(6, 41000, TokensPerStage, 1025000),
           PresaleStage(7, 45000, TokensPerStage, 1125000),
           PresaleStage(8, 49000, TokensPerStage, 1225000) >>])

\* ------------------------------------------------------------------------
\* Inputs of the instructions: arguments
\* ------------------------------------------------------------------------
StakeAmounts == {Zero, Million, Huge}
PayAmounts == {BFromInt(3), BFromInt(1000)}
Payers == {"alice"}
RefillAmounts == {Million}
BurnAmounts == {Million}
WithdrawAmounts == {BFromInt(997)}
DepositAmounts == {BFromInt(1000)}
ApyValues == {BFromInt(100)}
InitApyValues == {BFromInt(43)}
FeePercents == {BFromInt(3)}
Mints == {NATIVE_MINT, CUSTOM_TOKEN_MINT, "other"}
FeeKeys == {FEE_WALLET, "alice"}
StageIndexes == {0, 7, 8, 255}
StagePrices == {BFromInt(1), BFromInt(50000)}
StageTokensSold == {Zero, Million}
StageTotalRaised == {Zero, BFromInt(997)}
TickSteps == {7 * 24 * 3600, 90 * 24 * 3600, 180 * 24 * 3600,
              365 * 24 * 3600}

\* ------------------------------------------------------------------------
\* Inputs of the instructions: accounts.  No context has a seeds, has_one,
\* owner or address constraint, so each account of a call is whatever
\* account of the right type the transaction names.  For every role the
\* model offers the account meant for it and a few others, among them an
\* account that has another role in the same call; a call names the
\* signer's own accounts (...Own) with at most MaxSubstituted of them
\* replaced.
\* ------------------------------------------------------------------------
StakingPoolAccounts == {"staking_pool", "vault", "reward_pool", "alice"}
RewardPoolAccounts == {"reward_pool", "staking_pool", "admin", "alice"}
LiquidityAccounts == {"liquidity", "alice"}
VaultAccounts == {"vault", "liquidity", "alice"}
SourceAccounts == Users \cup {"reward_pool", "staking_pool"}
TreasurySolAccounts == {"treasury", "admin", "alice"}
TreasuryTokenAccounts == {"treasury", "alice"}
FeeWalletAccounts == {"fee_wallet", "alice"}

\* the fields in which the call c differs from the call own
Substituted(c, own) == {f \in DOMAIN c : c[f] # own[f]}

\* the calls explored differ from the signer's own in at most this many
\* accounts
MaxSubstituted == 1
FewSubstituted(c, own) == Cardinality(Substituted(c, own)) <= MaxSubstituted

InitializeTokenCalls == [payer : Users, presale_state : PresaleStates]

InitializeGlobalStateCalls == [payer : Users, global_state : GlobalStates]

InitializePresaleStagesCalls ==
    [payer : Users, presale_stage_info : PresaleStageInfos]

EndPresaleCalls == [admin : Users, presale_state : PresaleStates]

AcceptPaymentOwn(payer) ==
    [payer |-> payer, payer_token_account |-> payer,
     treasury_token_account |-> "treasury",
     fee_wallet_token_account |-> "fee_wallet",
     fee_wallet_token_owner |-> FEE_WALLET,
     treasury_sol_account |-> "treasury",
     fee_wallet_sol_account |-> "fee_wallet",
     fee_wallet_sol_key |-> FEE_WALLET,
     global_state |-> "g1"]

AcceptPaymentCalls ==
    {c \in [payer : Payers, payer_token_account : Users,
            treasury_token_account : TreasuryTokenAccounts,
            fee_wallet_token_account : FeeWalletAccounts,
            fee_wallet_token_owner : FeeKeys,
            treasury_sol_account : TreasurySolAccounts,
            fee_wallet_sol_account : FeeWalletAccounts,
            fee_wallet_sol_key : FeeKeys,
            global_state : GlobalStates] :
        FewSubstituted(c, AcceptPaymentOwn(c.payer))}

DepositSolCalls == [payer : Payers, treasury_sol_account : TreasurySolAccounts]

StakeTokensOwn(payer) ==
    [payer |-> payer, stake_info |-> payer, global_state |-> "g1",
     presale_state |-> "p1", user_token_account |-> payer,
     staking_pool_token_account |-> "staking_pool"]

StakeTokensCalls ==
    {c \in [payer : Users, stake_info : StakeInfos,
            global_state : GlobalStates, presale_state : PresaleStates,
            user_token_account : Users,
            staking_pool_token_account : StakingPoolAccounts] :
        FewSubstituted(c, StakeTokensOwn(c.payer))}

\* UnstakeTokens has the accounts of StakeTokens
UnstakeTokensOwn(payer) == StakeTokensOwn(payer)

UnstakeTokensCalls == StakeTokensCalls

ClaimRewardsOwn(payer) ==
    [payer |-> payer, stake_info |-> payer, global_state |-> "g1",
     user_token_account |-> payer,
     reward_pool_token_account |-> "reward_pool"]

ClaimRewardsCalls ==
    {c \in [payer : Users, stake_info : StakeInfos,
            global_state : GlobalStates, user_token_account : Users,
            reward_pool_token_account : RewardPoolAccounts] :
        FewSubstituted(c, ClaimRewardsOwn(c.payer))}

CalculateRewardsOwn(payer) ==
    [payer |-> payer, stake_info |-> payer, global_state |-> "g1"]

CalculateRewardsCalls ==
    {c \in [payer : Users, stake_info : StakeInfos,
            global_state : GlobalStates] :
        FewSubstituted(c, CalculateRewardsOwn(c.payer))}

LockLiquidityOwn(payer) ==
    [payer |-> payer, presale_state |-> "p1",
     liquidity_token_account |-> "liquidity", vault_account |-> "vault"]

LockLiquidityCalls ==
    {c \in [payer : Users, presale_state : PresaleStates,
            liquidity_token_account : LiquidityAccounts,
            vault_account : VaultAccounts] :
        FewSubstituted(c, LockLiquidityOwn(c.payer))}

BurnTokensOwn(admin) ==
    [admin |-> admin, presale_state |-> "p1", source |-> admin]

BurnTokensCalls ==
    {c \in [admin : Users, presale_state : PresaleStates,
            source : SourceAccounts] :
        FewSubstituted(c, BurnTokensOwn(c.admin))}

RefillRewardPoolOwn(admin) ==
    [admin |-> admin, presale_state |-> "p1", global_state |-> "g1",
     source |-> admin, reward_pool_token_account |-> "reward_pool"]

RefillRewardPoolCalls ==
    {c \in [admin : Users, presale_state : PresaleStates,
            global_state : GlobalStates, source : Users,
            reward_pool_token_account : RewardPoolAccounts] :
        FewSubstituted(c, RefillRewardPoolOwn(c.admin))}

UpdateParametersOwn(admin) ==
    [admin |-> admin, presale_state |-> "p1", global_state |-> "g1"]

UpdateParametersCalls ==
    {c \in [admin : Users, presale_state : PresaleStates,
            global_state : GlobalStates] :
        FewSubstituted(c, UpdateParametersOwn(c.admin))}

WithdrawFundsOwn(admin) ==
    [admin |-> admin, presale_state |-> "p1",
     treasury_sol_account |-> "treasury"]

WithdrawFundsCalls ==
    {c \in [admin : Users, presale_state : PresaleStates,
            treasury_sol_account : TreasurySolAccounts] :
        FewSubstituted(c, WithdrawFundsOwn(c.admin))}

UpdatePresaleStageCalls ==
    [admin : Users, presale_stage_info : PresaleStageInfos]

\* ------------------------------------------------------------------------
\* Initial state: the program is deployed and none of its accounts exists.
\* An account that does not exist reads as zero bytes.
\* ------------------------------------------------------------------------
PresaleStateZero ==
    [is_presale_active |-> FALSE, presale_end_time |-> NoneTime,
     launch_time |-> NoneTime, admin |-> NATIVE_MINT,
     liquidity_locked |-> FALSE, liquidity_lock_end_time |-> NoneTime]

GlobalStateZero ==
    [total_staked |-> Zero, reward_pool |-> Zero, apy |-> Zero,
     transaction_fee_percent |-> Zero]

StakeInfoZero == [amount |-> Zero, start_time |-> 0, last_claim_time |-> 0]

PresaleStageInfoZero ==
    [i \in 1..8 |-> [stage |-> 0, price |-> Zero, tokens_sold |-> Zero,
                     total_raised |-> Zero]]

NoneCreated ==
    [presale_state |-> [p \in PresaleStates |-> FALSE],
     global_state |-> [g \in GlobalStates |-> FALSE],
     presale_stage_info |-> [s \in PresaleStageInfos |-> FALSE],
     stake_info |-> [u \in StakeInfos |-> FALSE]]

InitToken ==
    [a \in TokenAccounts |->
        IF a = "admin" THEN BMulSmall(Million, 3)
        ELSE IF a = "alice" THEN BAdd(Huge, BMulSmall(Million, 2))
        ELSE IF a = "liquidity" THEN Million
        ELSE Zero]

\* alice holds the rent of a few accounts, the admin holds nothing
InitSol ==
    [a \in SolAccounts |->
        IF a = "alice" THEN BMulSmall(Million, 5) ELSE Zero]

NoCall == [op |-> "none", caller |-> "", ps |-> "", gs |-> "", si |-> "",
           psi |-> "", src |-> "", dst |-> "",
           arg |-> Zero, args |-> <<>>, mint |-> "",
           err |-> "Ok", paid |-> Zero, burned |-> Zero, ret |-> Zero]

NoAccounts ==
    [created |-> NoneCreated,
     presale_state |-> [p \in PresaleStates |-> PresaleStateZero],
     global_state |-> [g \in GlobalStates |-> GlobalStateZero],
     stake_info |-> [u \in StakeInfos |-> StakeInfoZero],
     presale_stage_info |-> [s \in PresaleStageInfos |-> PresaleStageInfoZero],
     token |-> InitToken,
     sol |-> InitSol]

\* the accounts are those of st
AccountsAre(st) ==
    /\ created = st.created
    /\ presale_state = st.presale_state
    /\ global_state = st.global_state
    /\ stake_info = st.stake_info
    /\ presale_stage_info = st.presale_stage_info
    /\ token = st.token
    /\ sol = st.sol

Init ==
    /\ now = 0
    /\ steps = 0
    /\ AccountsAre(NoAccounts)
    /\ last = NoCall

\* the accounts a call names, as `last` keeps them: the PresaleState, the
\* GlobalState, the StakeInfo and the PresaleStageInfo passed ("" for a
\* context that has none), and the account its transfer or burn takes from
\* (src) and gives to (dst); args are the arguments of the call after its
\* first, for the one instruction that has more than two
Accounts(ps, gs, si, psi, src, dst) ==
    [ps |-> ps, gs |-> gs, si |-> si, psi |-> psi, src |-> src, dst |-> dst,
     args |-> <<>>]

WithArgs(a, args) == [a EXCEPT !.args = args]

Stamp(op, caller, a, arg, mint, r) ==
    [op |-> op, caller |-> caller, ps |-> a.ps, gs |-> a.gs, si |-> a.si,
     psi |-> a.psi, src |-> a.src, dst |-> a.dst,
     arg |-> arg, args |-> a.args, mint |-> mint,
     err |-> r.err, paid |-> r.paid, burned |-> r.burned, ret |-> r.ret]

\* ------------------------------------------------------------------------
\* One instruction = one transaction, and transactions are serialized: an
\* instruction is processed when no result is pending (last = NoCall), and
\* Return hands the pending result back.  The runtime keeps the account
\* writes of a handler only when it returns Ok; on Err or panic every
\* account and every balance keeps its value from before the instruction.
\* ------------------------------------------------------------------------
Commit(op, caller, a, arg, mint, r) ==
    /\ last = NoCall
    /\ steps < MaxSteps
    /\ last' = Stamp(op, caller, a, arg, mint, r)
    /\ LET st == IF r.err = "Ok" THEN r.st ELSE Cur
       IN  /\ created' = st.created
           /\ presale_state' = st.presale_state
           /\ global_state' = st.global_state
           /\ stake_info' = st.stake_info
           /\ presale_stage_info' = st.presale_stage_info
           /\ token' = st.token
           /\ sol' = st.sol
    /\ steps' = IF r.err = "Ok" THEN steps + 1 ELSE steps
    /\ UNCHANGED now

Return ==
    /\ last # NoCall
    /\ last' = NoCall
    /\ UNCHANGED <<now, steps, accts>>

\* Account<'info, T> of a context: the account is read before the handler
\* runs, and the instruction fails when it does not exist
Load(exist, r) ==
    IF exist THEN r ELSE Fail("AccountNotInitialized", Cur)

\* #[account(init, payer = payer, space = ...)] of a context, before the
\* handler runs: the system program creates the account at the address
\* passed and takes its rent from the payer.  It refuses an address that
\* is in use and a payer who does not hold the rent.  The lamports taken
\* are those of the new account from then on; sol keeps the system accounts
\* only.  (The fee of the transaction is not an effect of the instruction
\* and is not in sol either.)
InitAccount(st, kind, address, payer, space) ==
    IF st.created[kind][address] THEN Fail("AccountAlreadyInUse", st)
    ELSE IF ~BLeq(RentExemptMinimum(space), st.sol[payer])
    THEN Fail("LedgerError", st)
    ELSE Done([st EXCEPT
            !.created[kind][address] = TRUE,
            !.sol[payer] = BSub(@, RentExemptMinimum(space))])

\* the handler h runs on the accounts init leaves
AfterInit(init, r) == IF init.err = "Ok" THEN r ELSE init

\* ------------------------------------------------------------------------
\* The instructions: the accounts of the context are loaded, then the
\* handler runs
\* ------------------------------------------------------------------------
InitializeToken(c) ==
    LET init == InitAccount(Cur, "presale_state", c.presale_state, c.payer,
                            PresaleStateSpace)
    IN  AfterInit(init, initialize_token_h(init.st, c))

InitializeGlobalState(c, apy, transaction_fee_percent) ==
    LET init == InitAccount(Cur, "global_state", c.global_state, c.payer,
                            GlobalStateSpace)
    IN  AfterInit(init, initialize_global_state_h(init.st, c, apy,
                                                  transaction_fee_percent))

InitializePresaleStages(c) ==
    LET init == InitAccount(Cur, "presale_stage_info", c.presale_stage_info,
                            c.payer, PresaleStageInfoSpace)
    IN  AfterInit(init, initialize_presale_stages_h(init.st, c))

EndPresale(c) ==
    Load(created.presale_state[c.presale_state], end_presale_h(Cur, c))

AcceptPayment(c, amount, token_mint, fail_at) ==
    Load(created.global_state[c.global_state],
         accept_payment_h(Cur, c, amount, token_mint, fail_at))

DepositSol(c, amount, fail_at) == deposit_sol_h(Cur, c, amount, fail_at)

StakeTokens(c, amount, fail_at) ==
    Load(/\ created.stake_info[c.stake_info]
         /\ created.global_state[c.global_state]
         /\ created.presale_state[c.presale_state],
         stake_tokens_h(Cur, c, amount, fail_at))

UnstakeTokens(c, fail_at) ==
    Load(/\ created.stake_info[c.stake_info]
         /\ created.global_state[c.global_state]
         /\ created.presale_state[c.presale_state],
         unstake_tokens_h(Cur, c, fail_at))

LockLiquidity(c, fail_at) ==
    Load(created.presale_state[c.presale_state],
         lock_liquidity_h(Cur, c, fail_at))

ClaimRewards(c, fail_at) ==
    Load(/\ created.stake_info[c.stake_info]
         /\ created.global_state[c.global_state],
         claim_rewards_h(Cur, c, fail_at))

CalculateRewards(c) ==
    Load(/\ created.stake_info[c.stake_info]
         /\ created.global_state[c.global_state],
         calculate_rewards_h(Cur, c))

BurnTokens(c, amount, fail_at) ==
    Load(created.presale_state[c.presale_state],
         burn_tokens_h(Cur, c, amount, fail_at))

RefillRewardPool(c, amount, fail_at) ==
    Load(/\ created.presale_state[c.presale_state]
         /\ created.global_state[c.global_state],
         refill_reward_pool_h(Cur, c, amount, fail_at))

UpdateParameters(c, new_apy, new_fee_percent) ==
    Load(/\ created.presale_state[c.presale_state]
         /\ created.global_state[c.global_state],
         update_parameters_h(Cur, c, new_apy, new_fee_percent))

WithdrawFunds(c, amount, fail_at) ==
    Load(created.presale_state[c.presale_state],
         withdraw_funds_h(Cur, c, amount, fail_at))

UpdatePresaleStage(c, stage_index, price, sold, raised) ==
    Load(created.presale_stage_info[c.presale_stage_info],
         update_presale_stage_h(Cur, c, stage_index, price, sold, raised))

initialize_token ==
    \E c \in InitializeTokenCalls :
        Commit("initialize_token", c.payer,
               Accounts(c.presale_state, "", "", "", c.payer, ""),
               Zero, "", InitializeToken(c))

initialize_global_state ==
    \E c \in InitializeGlobalStateCalls, apy \in InitApyValues,
       transaction_fee_percent \in FeePercents :
        Commit("initialize_global_state", c.payer,
               Accounts("", c.global_state, "", "", c.payer, ""),
               apy, "",
               InitializeGlobalState(c, apy, transaction_fee_percent))

initialize_presale_stages ==
    \E c \in InitializePresaleStagesCalls :
        Commit("initialize_presale_stages", c.payer,
               Accounts("", "", "", c.presale_stage_info, c.payer, ""),
               Zero, "", InitializePresaleStages(c))

end_presale ==
    \E c \in EndPresaleCalls :
        Commit("end_presale", c.admin,
               Accounts(c.presale_state, "", "", "", "", ""),
               Zero, "", EndPresale(c))

accept_payment ==
    \E c \in AcceptPaymentCalls, amount \in PayAmounts, token_mint \in Mints,
       fail_at \in 0..2 :
        Commit("accept_payment", c.payer,
               Accounts("", c.global_state, "", "",
                        IF token_mint = NATIVE_MINT
                        THEN c.payer ELSE c.payer_token_account,
                        IF token_mint = NATIVE_MINT
                        THEN c.treasury_sol_account
                        ELSE c.treasury_token_account),
               amount, token_mint,
               AcceptPayment(c, amount, token_mint, fail_at))

deposit_sol ==
    \E c \in DepositSolCalls, amount \in DepositAmounts, fail_at \in 0..1 :
        Commit("deposit_sol", c.payer,
               Accounts("", "", "", "", c.payer, c.treasury_sol_account),
               amount, "", DepositSol(c, amount, fail_at))

stake_tokens ==
    \E c \in StakeTokensCalls, amount \in StakeAmounts, fail_at \in 0..1 :
        Commit("stake_tokens", c.payer,
               Accounts(c.presale_state, c.global_state, c.stake_info, "",
                        c.user_token_account, c.staking_pool_token_account),
               amount, "", StakeTokens(c, amount, fail_at))

unstake_tokens ==
    \E c \in UnstakeTokensCalls, fail_at \in 0..2 :
        Commit("unstake_tokens", c.payer,
               Accounts(c.presale_state, c.global_state, c.stake_info, "",
                        c.staking_pool_token_account, c.user_token_account),
               Zero, "", UnstakeTokens(c, fail_at))

lock_liquidity ==
    \E c \in LockLiquidityCalls, fail_at \in 0..1 :
        Commit("lock_liquidity", c.payer,
               Accounts(c.presale_state, "", "", "",
                        c.liquidity_token_account, c.vault_account),
               Zero, "", LockLiquidity(c, fail_at))

claim_rewards ==
    \E c \in ClaimRewardsCalls, fail_at \in 0..1 :
        Commit("claim_rewards", c.payer,
               Accounts("", c.global_state, c.stake_info, "",
                        c.reward_pool_token_account, c.user_token_account),
               Zero, "", ClaimRewards(c, fail_at))

calculate_rewards ==
    \E c \in CalculateRewardsCalls :
        Commit("calculate_rewards", c.payer,
               Accounts("", c.global_state, c.stake_info, "", "", ""),
               Zero, "", CalculateRewards(c))

burn_tokens ==
    \E c \in BurnTokensCalls, amount \in BurnAmounts, fail_at \in 0..1 :
        Commit("burn_tokens", c.admin,
               Accounts(c.presale_state, "", "", "", c.source, ""),
               amount, "", BurnTokens(c, amount, fail_at))

refill_reward_pool ==
    \E c \in RefillRewardPoolCalls, amount \in RefillAmounts,
       fail_at \in 0..1 :
        Commit("refill_reward_pool", c.admin,
               Accounts(c.presale_state, c.global_state, "", "", c.source,
                        c.reward_pool_token_account),
               amount, "", RefillRewardPool(c, amount, fail_at))

update_parameters ==
    \E c \in UpdateParametersCalls, new_apy \in ApyValues,
       new_fee_percent \in FeePercents :
        Commit("update_parameters", c.admin,
               Accounts(c.presale_state, c.global_state, "", "", "", ""),
               new_apy, "", UpdateParameters(c, new_apy, new_fee_percent))

withdraw_funds ==
    \E c \in WithdrawFundsCalls, amount \in WithdrawAmounts,
       fail_at \in 0..1 :
        Commit("withdraw_funds", c.admin,
               Accounts(c.presale_state, "", "", "", c.treasury_sol_account,
                        c.admin),
               amount, "", WithdrawFunds(c, amount, fail_at))

update_presale_stage ==
    \E c \in UpdatePresaleStageCalls, stage_index \in StageIndexes,
       price \in StagePrices, tokens_sold \in StageTokensSold,
       total_raised \in StageTotalRaised :
        Commit("update_presale_stage", c.admin,
               WithArgs(Accounts("", "", "", c.presale_stage_info, "", ""),
                        <<price, tokens_sold, total_raised>>),
               BFromInt(stage_index), "",
               UpdatePresaleStage(c, stage_index, price, tokens_sold,
                                  total_raised))

\* the ClockSource advances (monotonic)
Tick ==
    \E d \in TickSteps :
        /\ last = NoCall
        /\ steps < MaxSteps
        /\ now' = now + d
        /\ steps' = steps + 1
        /\ UNCHANGED <<accts, last>>

Next ==
    \/ initialize_token
    \/ initialize_global_state
    \/ initialize_presale_stages
    \/ end_presale
    \/ accept_payment
    \/ deposit_sol
    \/ stake_tokens
    \/ unstake_tokens
    \/ lock_liquidity
    \/ claim_rewards
    \/ calculate_rewards
    \/ burn_tokens
    \/ refill_reward_pool
    \/ update_parameters
    \/ withdraw_funds
    \/ update_presale_stage
    \/ Return
    \/ Tick

\* the program as written, from its deployment
Spec == Init /\ [][Next]_vars

\* ------------------------------------------------------------------------
\* Properties.  `last` names the accounts the call passed (ps, gs, si, psi)
\* and the token or system account its transfer takes from (src) and gives
\* to (dst); a property about one call is stated on these accounts.
\* ------------------------------------------------------------------------
\* the call just processed named accounts that exist, so its handler ran
Handled == last'.err # "AccountNotInitialized"

\* k is the admin of a PresaleState that exists
IsAdmin(k) ==
    \E p \in PresaleStates :
        created.presale_state[p] /\ presale_state[p].admin = k

\* ------------------------------------------------------------------------
\* What the program can do from its deployment.  initialize_token is the
\* one instruction that creates a PresaleState and it panics on the admin
\* literal; no context creates a StakeInfo.  So the instructions that read
\* one of the two never get to their handler, and the token balances and
\* the counters of every GlobalState keep their first values.
\* ------------------------------------------------------------------------
NoPresaleStateExists == \A p \in PresaleStates : ~created.presale_state[p]

NoStakeInfoExists == \A u \in StakeInfos : ~created.stake_info[u]

\* the four instructions that can return Ok
OnlyFourSucceed ==
    (last.op # "none" /\ last.err = "Ok") =>
        last.op \in {"initialize_global_state", "initialize_presale_stages",
                     "deposit_sol", "update_presale_stage"}

\* an instruction behind a PresaleState or a StakeInfo stops at the loading
\* of its accounts
NeverHandled ==
    last.op \in {"end_presale", "stake_tokens", "unstake_tokens",
                 "lock_liquidity", "claim_rewards", "calculate_rewards",
                 "burn_tokens", "refill_reward_pool", "update_parameters",
                 "withdraw_funds"} => last.err = "AccountNotInitialized"

InitializeTokenPanics == last.op = "initialize_token" => last.err # "Ok"

AcceptPaymentPanics ==
    last.op = "accept_payment" =>
        last.err \in {"AccountNotInitialized", "Panic"}

TokensNeverMove == token = InitToken

CountersStayZero ==
    \A g \in GlobalStates :
        /\ global_state[g].total_staked = Zero
        /\ global_state[g].reward_pool = Zero

\* C5: update_presale_stage called by a key other than PresaleState.admin
\* fails with Unauthorized for every index and leaves the 8 stages as
\* they were.
C5_StageAdminOnly ==
    [][(/\ last'.op = "update_presale_stage" /\ Handled
        /\ ~IsAdmin(last'.caller)) =>
            /\ last'.err = "Unauthorized"
            /\ presale_stage_info' = presale_stage_info
    ]_vars

\* C15: accept_payment of the native asset, on a GlobalState that exists,
\* with amount > 3 and a fee recipient the program accepts succeeds when
\* the payer holds the amount and the transfers go through, takes exactly
\* amount from the payer, adds amount - 3 to the treasury and 3 to the fee
\* wallet; with amount <= 3 it fails with InvalidAmount and moves nothing;
\* 1000 gives 997 and 3.
\* The program does not do this: every call stops in the panic of
\* Pubkey::from_str(FEE_WALLET).unwrap(), before the amount is looked at.
C15_NativePaymentSplit ==
    [][(/\ last'.op = "accept_payment" /\ last'.mint = NATIVE_MINT
        /\ Handled /\ last'.err # "InvalidFeeWallet") =>
        LET p == last'.src
            t == last'.dst
            amount == last'.arg
            three == BFromInt(3)
        IN  /\ BLeq(amount, three) =>
                   last'.err = "InvalidAmount" /\ UNCHANGED accts
            /\ BLess(three, amount) =>
                   /\ last'.err \in {"Ok", "LedgerError"}
                   /\ BLeq(amount, sol[p]) =>
                          \/ last'.err = "Ok"
                          \/ last'.err = "LedgerError" /\ UNCHANGED accts
            /\ last'.err = "Ok" =>
                   /\ last'.paid = BSub(amount, three)
                   /\ last'.ret = three
                   /\ p # t =>
                          /\ sol'[p] = BSub(sol[p], amount)
                          /\ BLeq(BAdd(sol[t], BSub(amount, three)), sol'[t])
                   /\ UNCHANGED <<token, presale_state, global_state,
                                  stake_info, presale_stage_info>>
                   /\ amount = BFromInt(1000) =>
                          last'.paid = BFromInt(997)
    ]_vars

\* C16: accept_payment of the secondary token, on a GlobalState that
\* exists, with a fee recipient the program accepts fails with
\* InvalidAmount and moves nothing for every amount <= 3; with amount > 3
\* and a payer balance of at least amount, a successful call sends
\* amount - 3 to the treasury and 3 to the fee wallet.  The program does
\* not do this: every call stops in the panic of
\* Pubkey::from_str(FEE_WALLET).unwrap(), and the token branch behind it
\* has no amount > 3 test.
C16_TokenPaymentRequiresMoreThanFee ==
    [][(/\ last'.op = "accept_payment" /\ last'.mint = CUSTOM_TOKEN_MINT
        /\ Handled /\ last'.err # "InvalidFeeWallet") =>
        LET p == last'.src
            t == last'.dst
            amount == last'.arg
            three == BFromInt(3)
        IN  /\ BLeq(amount, three) =>
                   last'.err = "InvalidAmount" /\ UNCHANGED accts
            /\ (BLess(three, amount) /\ last'.err = "Ok") =>
                   /\ last'.paid = BSub(amount, three)
                   /\ last'.ret = three
                   /\ p # t =>
                          /\ token'[p] = BSub(token[p], amount)
                          /\ BLeq(BAdd(token[t], BSub(amount, three)),
                                  token'[t])
    ]_vars

\* C25: update_presale_stage, whichever key signs it (the handler has no
\* test of the signer, so an admin's call is one of these), fails with
\* InvalidStageIndex for an index >= 8 and leaves every account unchanged;
\* for an index < 8 it succeeds and replaces the entry at that index by the
\* entry with stage number index + 1 and the price, tokens_sold and
\* total_raised passed, and leaves the other 7 entries, every other table,
\* PresaleState, GlobalState, StakeInfo and the balances unchanged; every
\* table always has 8 entries.
C25_UpdatePresaleStage ==
    [][/\ \A s \in PresaleStageInfos : Len(presale_stage_info'[s]) = 8
       /\ (last'.op = "update_presale_stage" /\ Handled) =>
            LET index == CHOOSE i \in 0..255 : BFromInt(i) = last'.arg
                s == last'.psi
            IN  /\ index >= 8 =>
                    /\ last'.err = "InvalidStageIndex"
                    /\ UNCHANGED accts
                /\ index < 8 =>
                    /\ last'.err = "Ok"
                    /\ presale_stage_info'[s][index + 1] =
                           [stage |-> index + 1,
                            price |-> last'.args[1],
                            tokens_sold |-> last'.args[2],
                            total_raised |-> last'.args[3]]
                    /\ \A k \in (1..8) \ {index + 1} :
                           presale_stage_info'[s][k] =
                               presale_stage_info[s][k]
                    /\ \A q \in PresaleStageInfos \ {s} :
                           presale_stage_info'[q] = presale_stage_info[q]
                    /\ UNCHANGED <<created, presale_state, global_state,
                                   stake_info, token, sol>>
    ]_vars

\* the last stage of a table has just been rewritten with a price, a
\* tokens_sold and a total_raised that differ from those of the table as
\* created, next to a GlobalState that exists; the first stage is as created
C25_Witness ==
    /\ last.op = "update_presale_stage" /\ last.err = "Ok"
    /\ last.arg = BFromInt(7)
    /\ \E g \in GlobalStates : created.global_state[g]
    /\ presale_stage_info[last.psi][8] =
           [stage |-> 8, price |-> BFromInt(50000),
            tokens_sold |-> Million, total_raised |-> BFromInt(997)]
    /\ presale_stage_info[last.psi][1] =
           PresaleStage(1, 21000, TokensPerStage, 525000)
    /\ Len(presale_stage_info[last.psi]) = 8

====
